---- MODULE Spec2Model ----
(***************************************************************************)
(* The WorkerPool of the HydraScraper backend entry point: a fixed set of  *)
(* worker threads, an overflow queue and the map of in-flight tasks, with  *)
(* the event handlers the pool registers on each worker and the shutdown   *)
(* path of the process; and the PorteroBot state machine, with its         *)
(* transitionTo and reset calls split at their awaits.                     *)
(***************************************************************************)
EXTENDS Integers, Sequences, FiniteSets, TLC

\* ------------------------------------------------------------------ bounds
MaxPoolSize == 2    \* largest poolSize given to the constructor
MaxTasks == 5       \* execute calls in one run
MaxRepeats == 1     \* times the id generator yields a string the pool holds
MaxCalls == 2       \* PorteroBot: transitionTo / reset calls in progress at once
MaxHistory == 2     \* PorteroBot: flowHistory entries
MaxListeners == 3   \* PorteroBot: handlers registered with on()
MaxStack == 3       \* PorteroBot: nested emit calls that fit on the call stack

\* worker.taskId = null, Map.get(...) = undefined, find(...) = undefined
Null == 0

\* task-id strings: at most one new string per execute call
TaskIds == 1..MaxTasks
Handles == 1..MaxTasks

VARIABLES
  poolSize,       \* this.poolSize
  workers,        \* this.workers: per worker, the taskId field
  taskQueue,      \* this.taskQueue: sequence of task objects
  activeWorkers,  \* this.activeWorkers: Map taskId -> task, in insertion order
  handle,         \* the promise execute returned for each task
  thread,         \* each worker's thread: running, stopping (it threw or was
                  \* told to terminate; posted messages may still arrive), exited
  inbox,          \* payloads posted to each worker and not yet answered
  nextTask,       \* number of execute calls so far
  repeats,        \* number of generated ids that repeated a held string
  shutdown,       \* position of gracefulShutdown
  atShutdown      \* the tasks in flight on a running thread when terminate()
                  \* was called

VARIABLES
  portero,        \* the fields of the PorteroBot object
  porteroCalls    \* the transitionTo / reset calls in progress, each with
                  \* the await it is suspended at

VARIABLES
  porteroEvents,  \* PorteroBot: this.eventHandlers and the emit call last made
  comandante,     \* the ComandanteBot object and the execute call last made
  db              \* the tables of the schema and the statement last run

vars == <<poolSize, workers, taskQueue, activeWorkers, handle, thread, inbox,
          nextTask, repeats, shutdown, atShutdown, portero, porteroCalls,
          porteroEvents, comandante, db>>

\* the variables of the pool, and those of the other objects
poolVars == <<poolSize, workers, taskQueue, activeWorkers, handle, thread,
              inbox, nextTask, repeats, shutdown, atShutdown>>

others == <<portero, porteroCalls, porteroEvents, comandante, db>>

\* the variables a transitionTo / reset call leaves alone, and so on for the
\* other objects
besidePortero == <<poolVars, porteroEvents, comandante, db>>

besideEvents == <<poolVars, portero, porteroCalls, comandante, db>>

besideComandante == <<poolVars, portero, porteroCalls, porteroEvents, db>>

besideDb == <<poolVars, portero, porteroCalls, porteroEvents, comandante>>

WorkerIds == 1..poolSize

\* ------------------------------------------------------------ task objects
NoTask == [h |-> Null, taskId |-> Null, worker |-> Null]

NewTask(h, tid) == [h |-> h, taskId |-> tid, worker |-> Null]

\* ----------------------------------------------------------- the promise
NewPromise == [state |-> "pending", kind |-> "none", calls |-> 0]

NoPromise == [state |-> "unused", kind |-> "none", calls |-> 0]

\* resolve / reject of a promise: only the first call settles it
Settle(p, state, kind) ==
  IF p.state = "pending"
    THEN [state |-> state, kind |-> kind, calls |-> p.calls + 1]
    ELSE [p EXCEPT !.calls = @ + 1]

\* ----------------------------------------------- Map (insertion ordered)
MapHas(m, k) == \E i \in 1..Len(m) : m[i].taskId = k

MapGet(m, k) ==
  IF MapHas(m, k) THEN m[CHOOSE i \in 1..Len(m) : m[i].taskId = k] ELSE NoTask

MapSet(m, k, v) ==
  IF MapHas(m, k)
    THEN [i \in 1..Len(m) |-> IF m[i].taskId = k THEN v ELSE m[i]]
    ELSE Append(m, v)

\* variant: the entry is never deleted
MapDeleteKept(m, k) == m

MapDelete(m, k) == SelectSeq(m, LAMBDA t : t.taskId # k)

\* ------------------------------------------------------- the pool record
\* The handlers are functions of the pool's fields, gathered in one record.
Pool == [workers |-> workers, taskQueue |-> taskQueue,
         activeWorkers |-> activeWorkers, handle |-> handle,
         thread |-> thread, inbox |-> inbox]

\* variant: a find that falls back to the first worker when none is free
AvailableWorkerAny(ws) ==
  IF \E w \in DOMAIN ws : ws[w].taskId = Null
    THEN CHOOSE w \in DOMAIN ws :
           /\ ws[w].taskId = Null
           /\ \A v \in DOMAIN ws : ws[v].taskId = Null => w <= v
    ELSE 1

\* this.workers.find(w => !w.taskId)
AvailableWorker(ws) ==
  IF \E w \in DOMAIN ws : ws[w].taskId = Null
    THEN CHOOSE w \in DOMAIN ws :
           /\ ws[w].taskId = Null
           /\ \A v \in DOMAIN ws : ws[v].taskId = Null => w <= v
    ELSE Null

\* worker.postMessage(data): a thread that has stopped receives nothing
postMessage(p, w, h) ==
  IF p.thread[w] = "running"
    THEN [p EXCEPT !.inbox[w] = Append(@, h)]
    ELSE p

\* variant: the worker is not marked with the task's id
assignTaskUnmarked(p, w, task) ==
  LET t == [task EXCEPT !.worker = w]
      q == [p EXCEPT !.activeWorkers = MapSet(@, task.taskId, t)]
  IN postMessage(q, w, task.h)

assignTask(p, w, task) ==
  LET t == [task EXCEPT !.worker = w]
      q == [p EXCEPT !.workers[w].taskId = task.taskId,
                     !.activeWorkers = MapSet(@, task.taskId, t)]
  IN postMessage(q, w, task.h)

RECURSIVE processQueue(_)
processQueue(p) ==
  IF Len(p.taskQueue) = 0
    THEN p
    ELSE LET w == AvailableWorker(p.workers)
         IN IF w # Null
              THEN LET task == Head(p.taskQueue)
                       q == [p EXCEPT !.taskQueue = Tail(@)]
                   IN processQueue(assignTask(q, w, task))
              ELSE p

\* worker.on('message', ...)
onMessage(p, tid) ==
  LET task == MapGet(p.activeWorkers, tid)
  IN IF task # NoTask
       THEN processQueue(
              [p EXCEPT !.handle[task.h] = Settle(@, "resolved", "result"),
                        !.activeWorkers = MapDelete(@, tid)])
       ELSE p

\* Array.from(entries).find(([_, task]) => task.worker === worker)?.[0]
TaskIdOfWorker(m, w) ==
  IF \E i \in 1..Len(m) : m[i].worker = w
    THEN m[CHOOSE i \in 1..Len(m) :
             /\ m[i].worker = w
             /\ \A j \in 1..Len(m) : m[j].worker = w => i <= j].taskId
    ELSE Null

\* worker.on('error', ...)
onError(p, w) ==
  LET tid == TaskIdOfWorker(p.activeWorkers, w)
  IN IF tid # Null
       THEN LET task == MapGet(p.activeWorkers, tid)
            IN processQueue(
                 [p EXCEPT !.handle[task.h] =
                              Settle(@, "rejected", "WorkerExecutionError"),
                           !.activeWorkers = MapDelete(@, tid)])
       ELSE p

\* worker.on('exit', ...): logs, changes nothing
onExit(p, w) == p

\* execute(data), with the id the generator produced
execute(p, h, tid) ==
  LET task == NewTask(h, tid)
      q == [p EXCEPT !.handle[h] = NewPromise]
      w == AvailableWorker(q.workers)
  IN IF w # Null
       THEN assignTask(q, w, task)
       ELSE [q EXCEPT !.taskQueue = Append(@, task)]

\* ================================================================
\* PorteroBot: the state machine of a conversation flow
\* ================================================================
\* this.previousState = null
NoState == "null"

\* defaultStates of _initializeStates: state name -> allowedTransitions
defaultStates ==
  [idle           |-> {"greeting", "waiting"},
   greeting       |-> {"processing", "idle"},
   processing     |-> {"responding", "error", "idle"},
   responding     |-> {"awaiting_input", "closing", "idle"},
   awaiting_input |-> {"processing", "closing", "idle"},
   error          |-> {"recovering", "idle"},
   recovering     |-> {"idle", "greeting"},
   closing        |-> {"idle"},
   waiting        |-> {"greeting", "closing", "idle"}]

\* config.states: nothing, or an idle state that also lists a state nobody
\* registers
NoDefinitions == [n \in {} |-> {}]

StateDefinitions ==
  {NoDefinitions, [n \in {"idle"} |-> {"greeting", "waiting", "ghost"}]}

\* { ...defaultStates, ...this.stateDefinitions }
finalStates(defs) ==
  [n \in DOMAIN defs \cup DOMAIN defaultStates |->
     IF n \in DOMAIN defs THEN defs[n] ELSE defaultStates[n]]

\* the names a caller may pass as a state
StateNames == DOMAIN defaultStates \cup {"ghost"}

\* the states on which the callers of a run register exit and enter handlers
ExitHandlerStates == {"greeting"}

EnterHandlerStates == {"idle"}

\* a handler: none registered, one that returns, one that throws
HandlerKinds == {"returns", "throws"}

\* the users who talk to the bot
UserIds == {"u1"}

\* constructor + _initializeStates + registerState
NewPorteroBot(defs) ==
  [initialState  |-> "idle",
   currentState  |-> "idle",
   previousState |-> NoState,
   conversations |-> {},
   flowHistory   |-> <<>>,
   states        |-> finalStates(defs),
   onExit        |-> [n \in DOMAIN finalStates(defs) |-> "none"],
   onEnter       |-> [n \in DOMAIN finalStates(defs) |-> "none"]]

\* an async call: the operation, the await it is suspended at, the
\* sourceState and targetState it holds, the currentState that the handler it
\* awaits saw when it was invoked, whether that handler threw, and the
\* success field of the result it returned
NoCall ==
  [op |-> "none", pc |-> "free", sourceState |-> NoState,
   targetState |-> NoState, saw |-> NoState, threw |-> FALSE,
   success |-> FALSE]

\* return of transitionTo: the call is over, or reset goes on after its await;
\* of the result object the success field is kept and, of a successful
\* result, sourceState and targetState
Return(b, c, ok) ==
  [bot |-> b,
   call |-> [NoCall EXCEPT !.op = c.op,
                           !.pc = IF c.op = "reset" THEN "clear" ELSE "done",
                           !.sourceState = IF ok THEN c.sourceState ELSE NoState,
                           !.targetState = IF ok THEN c.targetState ELSE NoState,
                           !.success = ok]]

\* transitionTo after the enter handler: callbacks (none can be registered),
\* return success; a handler that threw lands in the catch block
afterEnter(b, c) == Return(b, c, ~c.threw)

\* variant: the state is updated, the transition is not recorded
changeStateUnrecorded(b, c) ==
  LET b2 == [b EXCEPT !.previousState = c.sourceState,
                      !.currentState = c.targetState]
  IN IF b2.onEnter[c.targetState] # "none"
       THEN [bot |-> b2,
             call |-> [c EXCEPT !.pc = "enter",
                                !.saw = b2.currentState,
                                !.threw = (b2.onEnter[c.targetState] = "throws")]]
       ELSE afterEnter(b2, [c EXCEPT !.threw = FALSE])

\* transitionTo from "Emit transition event" to the await on the enter handler
changeState(b, c) ==
  LET b2 == [b EXCEPT !.previousState = c.sourceState,
                      !.currentState = c.targetState,
                      !.flowHistory = Append(@, [from |-> c.sourceState,
                                                 to |-> c.targetState])]
  IN IF b2.onEnter[c.targetState] # "none"
       THEN [bot |-> b2,
             call |-> [c EXCEPT !.pc = "enter",
                                !.saw = b2.currentState,
                                !.threw = (b2.onEnter[c.targetState] = "throws")]]
       ELSE afterEnter(b2, [c EXCEPT !.threw = FALSE])

\* transitionTo after the await on the exit handler
afterExit(b, c) ==
  IF c.threw THEN Return(b, c, FALSE) ELSE changeState(b, c)

\* variant: transitionTo without the allowedTransitions check
transitionToUnchecked(b, c, targetState) ==
  LET sourceState == b.currentState
      c2 == [c EXCEPT !.sourceState = sourceState,
                      !.targetState = targetState,
                      !.threw = FALSE]
  IN IF sourceState \notin DOMAIN b.states \/ targetState \notin DOMAIN b.states
       THEN Return(b, c2, FALSE)
       ELSE IF b.onExit[sourceState] # "none"
         THEN [bot |-> b,
               call |-> [c2 EXCEPT !.pc = "exit",
                                   !.saw = b.currentState,
                                   !.threw = (b.onExit[sourceState] = "throws")]]
         ELSE changeState(b, c2)

\* transitionTo from its entry to its first await or its return
transitionTo(b, c, targetState) ==
  LET sourceState == b.currentState
      c2 == [c EXCEPT !.sourceState = sourceState,
                      !.targetState = targetState,
                      !.threw = FALSE]
  IN IF sourceState \notin DOMAIN b.states
       THEN Return(b, c2, FALSE)
       ELSE IF targetState \notin b.states[sourceState]
         THEN Return(b, c2, FALSE)
         ELSE IF targetState \notin DOMAIN b.states
           THEN Return(b, c2, FALSE)
           ELSE IF b.onExit[sourceState] # "none"
             THEN [bot |-> b,
                   call |-> [c2 EXCEPT !.pc = "exit",
                                       !.saw = b.currentState,
                                       !.threw = (b.onExit[sourceState] = "throws")]]
             ELSE changeState(b, c2)

\* reset after its await: conversations.clear(), flowHistory = []
resetClear(b, c) ==
  [bot |-> [b EXCEPT !.conversations = {}, !.flowHistory = <<>>],
   call |-> [c EXCEPT !.pc = "done"]]

\* getOrCreateConversation, as addMessage and updateConversationContext call it
getOrCreateConversation(b, userId) ==
  [b EXCEPT !.conversations = @ \cup {userId}]

\* clearConversation
clearConversation(b, userId) ==
  [b EXCEPT !.conversations = @ \ {userId}]

\* ================================================================
\* ComandanteBot: commands, aliases and execute
\* ================================================================
\* initializeCommands: the command table in declaration order (the order of
\* Object.values), each command with its aliases list
commands ==
  << [name |-> "help",     aliases |-> <<"h", "info", "?", "assist">>],
     [name |-> "catalog",  aliases |-> <<"c", "products", "services", "menu", "list">>],
     [name |-> "booking",  aliases |-> <<"b", "book", "reserve", "schedule", "appointment">>],
     [name |-> "status",   aliases |-> <<"s", "check", "track", "progress", "update">>],
     [name |-> "pricing",  aliases |-> <<"p", "price", "cost", "rates", "fees">>],
     [name |-> "hours",    aliases |-> <<"h", "time", "open", "schedule", "availability">>],
     [name |-> "location", aliases |-> <<"l", "address", "where", "map", "directions">>],
     [name |-> "contact",  aliases |-> <<"ct", "email", "phone", "support", "reach">>],
     [name |-> "faq",      aliases |-> <<"f", "question", "questions", "qa", "common">>],
     [name |-> "support",  aliases |-> <<"sup", "help", "assist", "agent", "ticket">>],
     [name |-> "cancel",   aliases |-> <<"x", "terminate", "abort", "stop", "delete">>],
     [name |-> "refund",   aliases |-> <<"r", "money-back", "reimbursement", "return", "claim">>] >>

CommandNames == {commands[i].name : i \in DOMAIN commands}

\* the property writes of initializeAliases, in the order it makes them: for
\* each command aliases[command.name] = command.name, then for each of its
\* aliases aliases[alias] = command.name
RECURSIVE aliasWrites(_)
aliasWrites(cmds) ==
  IF cmds = <<>>
    THEN <<>>
    ELSE LET command == Head(cmds)
         IN <<[key |-> command.name, value |-> command.name]>>
              \o [j \in DOMAIN command.aliases |->
                    [key |-> command.aliases[j], value |-> command.name]]
              \o aliasWrites(Tail(cmds))

\* the plain object that a sequence of writes leaves: each key holds the
\* value written to it last
ObjectAfter(writes) ==
  [k \in {writes[i].key : i \in DOMAIN writes} |->
     LET last == CHOOSE i \in DOMAIN writes :
                   /\ writes[i].key = k
                   /\ \A j \in DOMAIN writes : writes[j].key = k => j <= i
     IN writes[last].value]

\* initializeAliases
initializeAliases == ObjectAfter(aliasWrites(commands))

\* what obj[key] yields when obj has no such property of its own: undefined,
\* or a member that every object inherits from Object.prototype
Undefined == "undefined"

Inherited == "[inherited]"

ObjectPrototypeKeys ==
  {"constructor", "__proto__", "toString", "valueOf", "hasOwnProperty"}

GetProperty(obj, key) ==
  IF key \in DOMAIN obj
    THEN obj[key]
    ELSE IF key \in ObjectPrototypeKeys THEN Inherited ELSE Undefined

\* the first words a user types, and String.prototype.toLowerCase on them
Words ==
  CommandNames
    \cup UNION {{commands[i].aliases[j] : j \in DOMAIN commands[i].aliases} :
                  i \in DOMAIN commands}
    \cup {"", "nope", "constructor", "__proto__", "tostring", "valueof"}
    \cup {"HELP", "Status", "H", "toString", "valueOf"}

toLowerCase(w) ==
  CASE w = "HELP" -> "help"
    [] w = "Status" -> "status"
    [] w = "H" -> "h"
    [] w = "toString" -> "tostring"
    [] w = "valueOf" -> "valueof"
    [] OTHER -> w

\* the inputs of execute: the first word, typed with the prefix or without
Inputs == [hasPrefix : BOOLEAN, word : Words]

\* parseCommand: the prefix is cut off, the first word is lower-cased
parseCommand(input) ==
  [hasPrefix |-> input.hasPrefix, commandAlias |-> toLowerCase(input.word)]

\* what a command's handler does when called: the handlers of the class
\* return; a handler put in its place may throw an Error or throw null
HandlerOutcomes == {"returns", "throwsError", "throwsNull"}

\* the commands whose handler the callers of a run replace
ReplacedCommands == {"help", "support"}

NoResult ==
  [settled |-> "none", success |-> FALSE, command |-> Undefined,
   error |-> Undefined]

\* handleUnknownCommand
handleUnknownCommand ==
  [settled |-> "resolved", success |-> FALSE, command |-> Undefined,
   error |-> "Unknown command"]

\* execute(input): the promise it returns, resolved with a result or rejected
comandanteExecute(bot, input) ==
  LET parsed == parseCommand(input)
      commandName == GetProperty(bot.aliases, parsed.commandAlias)
  IN IF commandName = Undefined
       THEN handleUnknownCommand
       ELSE IF commandName \notin CommandNames
         \* this.commands[commandName] is undefined: command.handler throws
         \* a TypeError, which the catch block turns into a result
         THEN [settled |-> "resolved", success |-> FALSE,
               command |-> Undefined, error |-> "TypeError"]
         ELSE CASE bot.handler[commandName] = "returns" ->
                     [settled |-> "resolved", success |-> TRUE,
                      command |-> commandName, error |-> Undefined]
                [] bot.handler[commandName] = "throwsError" ->
                     [settled |-> "resolved", success |-> FALSE,
                      command |-> Undefined, error |-> "handler error"]
                \* catch (error) with error = null: error.message throws
                [] bot.handler[commandName] = "throwsNull" ->
                     [settled |-> "rejected", success |-> FALSE,
                      command |-> Undefined, error |-> "TypeError"]

\* constructor
NewComandanteBot ==
  [aliases |-> initializeAliases,
   handler |-> [n \in CommandNames |-> "returns"],
   input   |-> [hasPrefix |-> FALSE, word |-> ""],
   result  |-> NoResult]

\* ================================================================
\* PorteroBot: on, emit and _error
\* ================================================================
\* the event types that handlers are registered for in a run
EventTypes == {"state_transition", "error"}

NoEmit == [eventType |-> "none", invoked |-> <<>>, threw |-> FALSE]

\* this.eventHandlers = new Map(), and no emit call made yet
NoEvents == [eventHandlers |-> [e \in {} |-> <<>>], emitted |-> NoEmit]

\* on(eventType, handler): the Map after the push
on(eventHandlers, eventType, handler) ==
  LET has == IF eventType \in DOMAIN eventHandlers
               THEN eventHandlers
               ELSE [e \in DOMAIN eventHandlers \cup {eventType} |->
                       IF e = eventType THEN <<>> ELSE eventHandlers[e]]
  IN [has EXCEPT ![eventType] = Append(@, handler)]

\* emit(eventType) called with `depth` frames of emit below it on the stack:
\* the handlers it (and the emits nested in it) invoked, in order, and whether
\* it threw. A handler that throws is caught and passed to _error, which
\* emits 'error'; when the stack is exhausted the call throws a RangeError,
\* which the frames below do not catch: _error is called from their catch
\* blocks
RECURSIVE emit(_, _, _)
RECURSIVE emitLoop(_, _, _, _)
emitLoop(eventHandlers, eventType, i, depth) ==
  IF i > Len(eventHandlers[eventType])
    THEN [invoked |-> <<>>, threw |-> FALSE]
    ELSE LET call == <<[eventType |-> eventType, handler |-> i,
                        depth |-> depth]>>
         IN IF eventHandlers[eventType][i] = "returns"
              THEN LET rest == emitLoop(eventHandlers, eventType, i + 1, depth)
                   IN [invoked |-> call \o rest.invoked, threw |-> rest.threw]
              ELSE LET err == emit(eventHandlers, "error", depth + 1)
                   IN IF err.threw
                        THEN [invoked |-> call \o err.invoked, threw |-> TRUE]
                        ELSE LET rest == emitLoop(eventHandlers, eventType,
                                                  i + 1, depth)
                             IN [invoked |-> call \o err.invoked \o rest.invoked,
                                 threw |-> rest.threw]

emit(eventHandlers, eventType, depth) ==
  IF depth > MaxStack
    THEN [invoked |-> <<>>, threw |-> TRUE]
    ELSE IF eventType \notin DOMAIN eventHandlers
      THEN [invoked |-> <<>>, threw |-> FALSE]
      ELSE emitLoop(eventHandlers, eventType, 1, depth)

\* ================================================================
\* The schema: scrape_jobs, scrape_results, activity_logs and their triggers
\* ================================================================
\* CREATE TYPE public.scrape_status
scrape_status ==
  {"pending", "running", "completed", "failed", "paused", "cancelled"}

\* the rows of public.projects (id -> user_id), which no statement of the
\* model changes; every project has an owner (user_id is NOT NULL)
projects == [p1 |-> "u1", p2 |-> "u2"]

ProjectIds == DOMAIN projects

\* the primary keys that scrape_jobs rows get
JobIds == {"j1", "j2"}

\* who runs a statement: a user (row level security applies; u1 owns p1 and
\* not p2) or the service role (it bypasses row level security)
Callers == {"u1", "service_role"}

SqlNull == "NULL"

\* no row with this primary key
NoRow == [project_id |-> SqlNull, status |-> SqlNull, completed_at |-> SqlNull]

\* the values of a timestamp column: NULL or some time
Timestamps == {SqlNull, "time"}

\* the policies of scrape_jobs and scrape_results: project_id IN (the caller's
\* projects)
OwnProject(caller, project_id) ==
  caller = "service_role" \/ projects[project_id] = caller

\* the tables after the schema script, and no statement run yet
NewDatabase ==
  [scrape_jobs    |-> [j \in JobIds |-> NoRow],
   scrape_results |-> {},
   logged         |-> <<>>,
   statement      |-> [op |-> "none", job |-> SqlNull, outcome |-> "none",
                       rows |-> 0]]

\* log_scrape_job_activity for one row: the activity_logs row it inserts, or
\* the error that the insert raises (user_id is NOT NULL). In a DELETE
\* trigger NEW is null, so that NEW.project_id is null and the SELECT finds
\* no project
log_scrape_job_activity(TG_OP, job, old, new) ==
  LET v_user_id == IF new.project_id = SqlNull
                     THEN SqlNull
                     ELSE projects[new.project_id]
  IN IF v_user_id = SqlNull
       THEN [raised |-> TRUE, row |-> NoRow]
       ELSE [raised |-> FALSE,
             row |-> [user_id |-> v_user_id,
                      project_id |-> new.project_id,
                      action |-> CASE TG_OP = "INSERT" -> "created"
                                   [] TG_OP = "UPDATE" -> "updated"
                                   [] TG_OP = "DELETE" -> "deleted",
                      resource_id |-> job]]

\* a statement that raised: its changes are rolled back
Raised(d, op, job) ==
  [d EXCEPT !.logged = <<>>,
            !.statement = [op |-> op, job |-> job, outcome |-> "error",
                           rows |-> 0]]

\* a statement that a WITH CHECK policy refused: nothing is changed
Denied(d, op, job) ==
  [d EXCEPT !.logged = <<>>,
            !.statement = [op |-> op, job |-> job, outcome |-> "denied",
                           rows |-> 0]]

\* a statement that ran and matched no row
NoRows(d, op, job) ==
  [d EXCEPT !.logged = <<>>,
            !.statement = [op |-> op, job |-> job, outcome |-> "ok",
                           rows |-> 0]]

\* a statement on scrape_jobs that changes the row of one job from OLD to NEW,
\* with the AFTER ... FOR EACH ROW trigger
ChangeJob(d, op, job, old, new) ==
  LET log == log_scrape_job_activity(op, job, old, new)
  IN IF log.raised
       THEN Raised(d, op, job)
       ELSE [d EXCEPT !.scrape_jobs[job] = new,
                      !.scrape_results = IF op = "DELETE" THEN @ \ {job} ELSE @,
                      !.logged = <<log.row>>,
                      !.statement = [op |-> op, job |-> job, outcome |-> "ok",
                                     rows |-> 1]]

\* INSERT INTO scrape_jobs (id, project_id, ...) VALUES (job, project_id, ...)
insertJob(d, caller, job, project_id) ==
  IF ~OwnProject(caller, project_id)
    THEN Denied(d, "INSERT", job)
    ELSE ChangeJob(d, "INSERT", job, NoRow,
                   [project_id |-> project_id, status |-> "pending",
                    completed_at |-> SqlNull])

\* the SET clauses of an UPDATE of scrape_jobs: one column, one value
Assignments ==
  [column : {"project_id"}, value : ProjectIds]
    \cup [column : {"status"}, value : scrape_status]
    \cup [column : {"completed_at"}, value : Timestamps]

\* UPDATE scrape_jobs SET column = value WHERE id = job
updateJob(d, caller, job, set) ==
  LET old == d.scrape_jobs[job]
      new == [old EXCEPT ![set.column] = set.value]
  IN IF old = NoRow \/ ~OwnProject(caller, old.project_id)
       THEN NoRows(d, "UPDATE", job)
       ELSE IF ~OwnProject(caller, new.project_id)
         THEN Denied(d, "UPDATE", job)
         ELSE ChangeJob(d, "UPDATE", job, old, new)

\* DELETE FROM scrape_jobs WHERE id = job
deleteJob(d, caller, job) ==
  LET old == d.scrape_jobs[job]
  IN IF old = NoRow \/ ~OwnProject(caller, old.project_id)
       THEN NoRows(d, "DELETE", job)
       ELSE ChangeJob(d, "DELETE", job, old, NoRow)

\* variant: the UPDATE of update_job_status_on_result without its conditions
\* on status and completed_at
update_job_status_unconditional(d, caller, job_id) ==
  LET old == d.scrape_jobs[job_id]
  IN IF ~OwnProject(caller, old.project_id)
       THEN NoRows(d, "UPDATE", job_id)
       ELSE ChangeJob(d, "UPDATE", job_id, old,
                      [old EXCEPT !.status = "completed",
                                  !.completed_at = "time"])

\* update_job_status_on_result: UPDATE scrape_jobs SET status = 'completed',
\* completed_at = CURRENT_TIMESTAMP WHERE id = NEW.job_id AND status =
\* 'running' AND completed_at IS NULL, run as the caller of the INSERT
update_job_status_on_result(d, caller, job_id) ==
  LET old == d.scrape_jobs[job_id]
  IN IF \/ ~OwnProject(caller, old.project_id)
        \/ old.status # "running"
        \/ old.completed_at # SqlNull
       THEN NoRows(d, "UPDATE", job_id)
       ELSE ChangeJob(d, "UPDATE", job_id, old,
                      [old EXCEPT !.status = "completed",
                                  !.completed_at = "time"])

\* INSERT INTO scrape_results (job_id, project_id, ...)
insertResult(d, caller, job_id, project_id) ==
  IF ~OwnProject(caller, project_id)
    THEN Denied(d, "INSERT RESULT", job_id)
    ELSE IF d.scrape_jobs[job_id] = NoRow
    \* job_id REFERENCES scrape_jobs(id)
    THEN Raised(d, "INSERT RESULT", job_id)
    ELSE LET u == update_job_status_on_result(d, caller, job_id)
         IN IF u.statement.outcome = "error"
              THEN Raised(d, "INSERT RESULT", job_id)
              ELSE [u EXCEPT !.scrape_results = @ \cup {job_id},
                             !.statement = [op |-> "INSERT RESULT",
                                            job |-> job_id, outcome |-> "ok",
                                            rows |-> 1]]

\* ------------------------------------------------------------------- Init
PoolInit ==
  /\ poolSize \in 1..MaxPoolSize
  /\ workers = [w \in WorkerIds |-> [taskId |-> Null]]
  /\ taskQueue = <<>>
  /\ activeWorkers = <<>>
  /\ handle = [h \in Handles |-> NoPromise]
  /\ thread = [w \in WorkerIds |-> "running"]
  /\ inbox = [w \in WorkerIds |-> <<>>]
  /\ nextTask = 0
  /\ repeats = 0
  /\ shutdown = "running"
  /\ atShutdown = {}

\* The pool of the entry point, beside a PorteroBot built with no config.
\* the other objects as their constructors (the schema script) leave them
OthersNew ==
  /\ porteroEvents = NoEvents
  /\ comandante = NewComandanteBot
  /\ db = NewDatabase

Init ==
  /\ PoolInit
  /\ portero = NewPorteroBot(NoDefinitions)
  /\ porteroCalls = [c \in 1..MaxCalls |-> NoCall]
  /\ OthersNew

\* the pool's fields after a handler returned p
Becomes(p) ==
  LET q == p IN
  /\ workers' = q.workers
  /\ taskQueue' = q.taskQueue
  /\ activeWorkers' = q.activeWorkers
  /\ handle' = q.handle
  /\ inbox' = q.inbox

\* ---------------------------------------------------------------- actions
\* The id strings the pool still holds: in a worker's taskId field, in a
\* queued task or as a key of the map.
IdsInUse ==
  {workers[w].taskId : w \in WorkerIds} \cup
  {taskQueue[i].taskId : i \in 1..Len(taskQueue)} \cup
  {activeWorkers[i].taskId : i \in 1..Len(activeWorkers)}

\* `task-${Date.now()}-${Math.random()...}`: nothing keeps the string from
\* being one the pool holds already. Strings are only compared for equality,
\* so the least id not in use stands for every new string.
GeneratedIds ==
  (IdsInUse \cap TaskIds) \cup
  {t \in TaskIds : t \notin IdsInUse /\ \A u \in TaskIds : u \notin IdsInUse => t <= u}

\* A caller submits a task.
Execute(tid) ==
  /\ nextTask < MaxTasks
  /\ tid \in GeneratedIds
  /\ tid \in IdsInUse => repeats < MaxRepeats
  /\ nextTask' = nextTask + 1
  /\ repeats' = IF tid \in IdsInUse THEN repeats + 1 ELSE repeats
  /\ Becomes(execute(Pool, nextTask + 1, tid))
  /\ UNCHANGED others
  /\ UNCHANGED <<poolSize, thread, shutdown, atShutdown>>

\* Worker w answers the payload at the head of its inbox with a message
\* whose taskId field is tid (Null: the field is missing).
WorkerMessage(w, tid) ==
  /\ thread[w] \in {"running", "stopping"}
  /\ inbox[w] # <<>>
  /\ Becomes(onMessage([Pool EXCEPT !.inbox[w] = Tail(@)], tid))
  /\ UNCHANGED others
  /\ UNCHANGED <<poolSize, thread, nextTask, repeats, shutdown, atShutdown>>

\* Worker w posts a message it owes to no payload: a duplicate or late one.
ExtraMessage(w, tid) ==
  /\ thread[w] \in {"running", "stopping"}
  /\ Becomes(onMessage(Pool, tid))
  /\ UNCHANGED others
  /\ UNCHANGED <<poolSize, thread, nextTask, repeats, shutdown, atShutdown>>

\* An uncaught exception in worker w: the 'error' event; the thread stops.
WorkerError(w) ==
  /\ thread[w] = "running"
  /\ thread' = [thread EXCEPT ![w] = "stopping"]
  /\ Becomes(onError([Pool EXCEPT !.inbox[w] = <<>>], w))
  /\ UNCHANGED others
  /\ UNCHANGED <<poolSize, nextTask, repeats, shutdown, atShutdown>>

\* The thread of worker w ends: the 'exit' event.
WorkerExit(w) ==
  /\ thread[w] \in {"running", "stopping"}
  /\ thread' = [thread EXCEPT ![w] = "exited"]
  /\ Becomes(onExit([Pool EXCEPT !.inbox[w] = <<>>], w))
  /\ UNCHANGED others
  /\ UNCHANGED <<poolSize, nextTask, repeats, shutdown, atShutdown>>

\* gracefulShutdown: workerPool.terminate() asks every thread to stop. (A
\* second signal repeats terminate() on the same threads and changes nothing.)
Terminate ==
  /\ shutdown = "running"
  /\ shutdown' = "terminating"
  /\ atShutdown' = {activeWorkers[i].h : i \in
                      {j \in 1..Len(activeWorkers) :
                         thread[activeWorkers[j].worker] = "running"}}
  /\ thread' = [w \in WorkerIds |->
                  IF thread[w] = "running" THEN "stopping" ELSE thread[w]]
  /\ UNCHANGED others
  /\ UNCHANGED <<poolSize, workers, taskQueue, activeWorkers, handle, inbox,
                 nextTask, repeats>>

\* await workerPool.terminate() returns once every thread has exited.
Terminated ==
  /\ shutdown = "terminating"
  /\ \A w \in WorkerIds : thread[w] = "exited"
  /\ shutdown' = "terminated"
  /\ UNCHANGED others
  /\ UNCHANGED <<poolSize, workers, taskQueue, activeWorkers, handle, thread,
                 inbox, nextTask, repeats, atShutdown>>

\* The taskId field of a message: a key of the map, or anything else (a
\* missing field, an unknown string), for which Map.get returns undefined.
MessageIds == {activeWorkers[i].taskId : i \in 1..Len(activeWorkers)} \cup {Null}

Next ==
  \/ \E tid \in TaskIds : Execute(tid)
  \/ \E w \in WorkerIds, tid \in MessageIds : WorkerMessage(w, tid)
  \/ \E w \in WorkerIds, tid \in MessageIds : ExtraMessage(w, tid)
  \/ \E w \in WorkerIds : WorkerError(w)
  \/ \E w \in WorkerIds : WorkerExit(w)
  \/ Terminate
  \/ Terminated

Spec == Init /\ [][Next]_vars

\* ------------------------------------------- workers that keep their word
\* A new id string that the pool does not hold.
FreshIds == GeneratedIds \ IdsInUse

\* The id under which the payload of task h was handed to a worker.
IdOfPayload(h) ==
  IF \E i \in 1..Len(activeWorkers) : activeWorkers[i].h = h
    THEN activeWorkers[CHOOSE i \in 1..Len(activeWorkers) :
                         activeWorkers[i].h = h].taskId
    ELSE Null

Submit == \E tid \in FreshIds : Execute(tid)

\* Worker w answers its payload with one result, carrying the task's id.
WorkerResult(w) ==
  /\ inbox[w] # <<>>
  /\ WorkerMessage(w, IdOfPayload(Head(inbox[w])))

\* Worker w answers its payload with one error.
WorkerFault(w) ==
  /\ inbox[w] # <<>>
  /\ WorkerError(w)

\* The thread of a worker that reported an error ends.
ExitAfterError(w) ==
  /\ thread[w] = "stopping"
  /\ WorkerExit(w)

\* Some thread ended while its task was in flight and unsettled.
Crashed ==
  \E i \in 1..Len(activeWorkers) :
    /\ thread[activeWorkers[i].worker] = "exited"
    /\ handle[activeWorkers[i].h].state = "pending"

\* The thread of worker w ends while it holds a payload, with neither a
\* result nor an error; at most one worker of a run does.
Crash(w) ==
  /\ inbox[w] # <<>>
  /\ thread[w] = "running"
  /\ ~Crashed
  /\ WorkerExit(w)

NextLive ==
  \/ Submit
  \/ \E w \in WorkerIds : WorkerResult(w)
  \/ \E w \in WorkerIds : WorkerFault(w)
  \/ \E w \in WorkerIds : ExitAfterError(w)
  \/ \E w \in WorkerIds : Crash(w)

\* Every payload is answered: a thread that holds one keeps running until it
\* has posted its result or thrown.
Answering(w) == w \in WorkerIds /\ (WorkerResult(w) \/ WorkerFault(w))

SpecLive ==
  Init /\ [][NextLive]_vars /\ \A w \in 1..MaxPoolSize : WF_vars(Answering(w))

\* ================================================================
\* ------------------------------------------------------- PorteroBot actions
CallsInProgress ==
  {c \in 1..MaxCalls : porteroCalls[c].pc \in {"exit", "enter", "clear"}}

\* the slot a new call takes: the first one with no call in progress
FreeCall(c) ==
  /\ c \notin CallsInProgress
  /\ \A d \in 1..MaxCalls : d \notin CallsInProgress => c <= d

\* The result a call returned stays with its caller for one step only.
Forget(calls) ==
  [d \in DOMAIN calls |-> IF calls[d].pc = "done" THEN NoCall ELSE calls[d]]

BotBecomes(c, r) ==
  /\ portero' = r.bot
  /\ porteroCalls' = [Forget(porteroCalls) EXCEPT ![c] = r.call]

\* A caller calls transitionTo(targetState).
TransitionTo(c, targetState) ==
  /\ FreeCall(c)
  /\ Len(portero.flowHistory) + Cardinality(CallsInProgress) < MaxHistory
  /\ BotBecomes(c, transitionTo(portero, [NoCall EXCEPT !.op = "transitionTo"],
                                targetState))
  /\ UNCHANGED besidePortero

\* A caller calls reset().
Reset(c) ==
  /\ FreeCall(c)
  /\ Len(portero.flowHistory) + Cardinality(CallsInProgress) < MaxHistory
  /\ BotBecomes(c, transitionTo(portero, [NoCall EXCEPT !.op = "reset"],
                                portero.initialState))
  /\ UNCHANGED besidePortero

\* The exit handler awaited by call c is over.
ExitHandlerDone(c) ==
  /\ porteroCalls[c].pc = "exit"
  /\ BotBecomes(c, afterExit(portero, porteroCalls[c]))
  /\ UNCHANGED besidePortero

\* The enter handler awaited by call c is over.
EnterHandlerDone(c) ==
  /\ porteroCalls[c].pc = "enter"
  /\ BotBecomes(c, afterEnter(portero, porteroCalls[c]))
  /\ UNCHANGED besidePortero

\* The transitionTo awaited by the reset call c is over.
ResetClear(c) ==
  /\ porteroCalls[c].pc = "clear"
  /\ BotBecomes(c, resetClear(portero, porteroCalls[c]))
  /\ UNCHANGED besidePortero

\* onExitState(stateName, handler); the callers of a run register handlers
\* while no call is in progress
OnExitState(stateName, kind) ==
  /\ stateName \in DOMAIN portero.states
  /\ CallsInProgress = {}
  /\ portero' = [portero EXCEPT !.onExit[stateName] = kind]
  /\ porteroCalls' = Forget(porteroCalls)
  /\ UNCHANGED besidePortero

\* onEnterState(stateName, handler)
OnEnterState(stateName, kind) ==
  /\ stateName \in DOMAIN portero.states
  /\ CallsInProgress = {}
  /\ portero' = [portero EXCEPT !.onEnter[stateName] = kind]
  /\ porteroCalls' = Forget(porteroCalls)
  /\ UNCHANGED besidePortero

\* addMessage(userId, ...) or updateConversationContext(userId, ...)
AddMessage(userId) ==
  /\ userId \notin portero.conversations
  /\ portero' = getOrCreateConversation(portero, userId)
  /\ porteroCalls' = Forget(porteroCalls)
  /\ UNCHANGED besidePortero

\* clearConversation(userId)
ClearConversation(userId) ==
  /\ userId \in portero.conversations
  /\ portero' = clearConversation(portero, userId)
  /\ porteroCalls' = Forget(porteroCalls)
  /\ UNCHANGED besidePortero

\* A bot built with one of the configs, beside a pool nobody uses.
InitPortero ==
  /\ PoolInit
  /\ poolSize = 1
  /\ \E defs \in StateDefinitions : portero = NewPorteroBot(defs)
  /\ porteroCalls = [c \in 1..MaxCalls |-> NoCall]
  /\ OthersNew

NextPortero ==
  \/ \E c \in 1..MaxCalls, t \in StateNames : TransitionTo(c, t)
  \/ \E c \in 1..MaxCalls : Reset(c)
  \/ \E c \in 1..MaxCalls : ExitHandlerDone(c)
  \/ \E c \in 1..MaxCalls : EnterHandlerDone(c)
  \/ \E c \in 1..MaxCalls : ResetClear(c)
  \/ \E n \in ExitHandlerStates, k \in HandlerKinds : OnExitState(n, k)
  \/ \E n \in EnterHandlerStates, k \in HandlerKinds : OnEnterState(n, k)
  \/ \E u \in UserIds : AddMessage(u)
  \/ \E u \in UserIds : ClearConversation(u)

SpecPortero == InitPortero /\ [][NextPortero]_vars

\* One caller, who awaits each call before making the next.
NextPorteroSeq ==
  \/ \E t \in StateNames : TransitionTo(1, t)
  \/ Reset(1)
  \/ ExitHandlerDone(1)
  \/ EnterHandlerDone(1)
  \/ ResetClear(1)
  \/ \E n \in ExitHandlerStates, k \in HandlerKinds : OnExitState(n, k)
  \/ \E n \in EnterHandlerStates, k \in HandlerKinds : OnEnterState(n, k)
  \/ \E u \in UserIds : AddMessage(u)
  \/ \E u \in UserIds : ClearConversation(u)

SpecPorteroSeq == InitPortero /\ [][NextPorteroSeq]_vars

\* A caller calls transitionTo(targetState) without awaiting the calls that
\* are in progress.
TransitionToConcurrently(c, targetState) ==
  /\ FreeCall(c)
  /\ Len(portero.flowHistory) < MaxHistory
  /\ BotBecomes(c, transitionTo(portero, [NoCall EXCEPT !.op = "transitionTo"],
                                targetState))
  /\ UNCHANGED besidePortero

\* Callers who do not await one another's transitionTo calls.
NextPorteroConcurrent ==
  \/ \E c \in 1..MaxCalls, t \in StateNames : TransitionToConcurrently(c, t)
  \/ \E c \in 1..MaxCalls : ExitHandlerDone(c)
  \/ \E c \in 1..MaxCalls : EnterHandlerDone(c)
  \/ \E n \in ExitHandlerStates, k \in HandlerKinds : OnExitState(n, k)
  \/ \E n \in EnterHandlerStates, k \in HandlerKinds : OnEnterState(n, k)

SpecPorteroConcurrent == InitPortero /\ [][NextPorteroConcurrent]_vars

\* ================================================================
\* ------------------------------------------------- ComandanteBot actions
\* A caller replaces the handler of a command.
SetHandler(name, outcome) ==
  /\ comandante' = [comandante EXCEPT !.handler[name] = outcome,
                                      !.result = NoResult]
  /\ UNCHANGED besideComandante

\* A caller calls execute(input) and awaits the promise.
ExecuteCommand(input) ==
  /\ comandante' = [comandante EXCEPT !.input = input,
                                      !.result = comandanteExecute(comandante, input)]
  /\ UNCHANGED besideComandante

InitComandante ==
  /\ PoolInit
  /\ poolSize = 1
  /\ portero = NewPorteroBot(NoDefinitions)
  /\ porteroCalls = [c \in 1..MaxCalls |-> NoCall]
  /\ OthersNew

NextComandante ==
  \/ \E n \in ReplacedCommands, o \in HandlerOutcomes : SetHandler(n, o)
  \/ \E input \in Inputs : ExecuteCommand(input)

SpecComandante == InitComandante /\ [][NextComandante]_vars

\* ------------------------------------------------ PorteroBot event actions
\* the number of handlers registered so far
Listeners ==
  LET RECURSIVE count(_)
      count(S) == IF S = {} THEN 0
                  ELSE LET e == CHOOSE x \in S : TRUE
                       IN Len(porteroEvents.eventHandlers[e]) + count(S \ {e})
  IN count(DOMAIN porteroEvents.eventHandlers)

\* A caller registers a handler with on(eventType, handler).
On(eventType, kind) ==
  /\ Listeners < MaxListeners
  /\ porteroEvents' =
       [eventHandlers |-> on(porteroEvents.eventHandlers, eventType, kind),
        emitted |-> NoEmit]
  /\ UNCHANGED besideEvents

\* emit(eventType) is called (by the bot or by a caller) and runs to its end.
Emit(eventType) ==
  /\ LET r == emit(porteroEvents.eventHandlers, eventType, 0)
     IN porteroEvents' =
          [porteroEvents EXCEPT !.emitted = [eventType |-> eventType,
                                             invoked |-> r.invoked,
                                             threw |-> r.threw]]
  /\ UNCHANGED besideEvents

InitEvents ==
  /\ PoolInit
  /\ poolSize = 1
  /\ portero = NewPorteroBot(NoDefinitions)
  /\ porteroCalls = [c \in 1..MaxCalls |-> NoCall]
  /\ OthersNew

NextEvents ==
  \/ \E e \in EventTypes, k \in HandlerKinds : On(e, k)
  \/ \E e \in EventTypes : Emit(e)

SpecEvents == InitEvents /\ [][NextEvents]_vars

\* ---------------------------------------------------------- schema actions
\* A caller inserts a job with a new id for a project.
InsertJob(caller, job, project_id) ==
  /\ db.scrape_jobs[job] = NoRow
  /\ db' = insertJob(db, caller, job, project_id)
  /\ UNCHANGED besideDb

\* A caller updates the row of a job.
UpdateJob(caller, job, set) ==
  /\ db' = updateJob(db, caller, job, set)
  /\ UNCHANGED besideDb

\* A caller deletes the row of a job.
DeleteJob(caller, job) ==
  /\ db' = deleteJob(db, caller, job)
  /\ UNCHANGED besideDb

\* A caller inserts a result for a job.
InsertResult(caller, job_id, project_id) ==
  /\ db' = insertResult(db, caller, job_id, project_id)
  /\ UNCHANGED besideDb

InitDb ==
  /\ PoolInit
  /\ poolSize = 1
  /\ portero = NewPorteroBot(NoDefinitions)
  /\ porteroCalls = [c \in 1..MaxCalls |-> NoCall]
  /\ OthersNew

NextDb ==
  \/ \E c \in Callers, j \in JobIds, p \in ProjectIds : InsertJob(c, j, p)
  \/ \E c \in Callers, j \in JobIds, set \in Assignments : UpdateJob(c, j, set)
  \/ \E c \in Callers, j \in JobIds : DeleteJob(c, j)
  \/ \E c \in Callers, j \in JobIds, p \in ProjectIds : InsertResult(c, j, p)

SpecDb == InitDb /\ [][NextDb]_vars

\* ================================================================ claims
Pending(h) == handle[h].state = "pending"

Settled(h) == handle[h].state \in {"resolved", "rejected"}

\* the tasks of the map, and those of the map that run on worker w
InFlight == {activeWorkers[i].h : i \in 1..Len(activeWorkers)}

InFlightOn(w) ==
  {activeWorkers[i].h :
     i \in {j \in 1..Len(activeWorkers) : activeWorkers[j].worker = w}}

Queued == {taskQueue[i].h : i \in 1..Len(taskQueue)}

BusyWorkers == {w \in WorkerIds : workers[w].taskId # Null}

\* every task so far was given an id string the pool did not hold
DistinctIds == repeats = 0

SomeThreadStopped == \E w \in WorkerIds : thread[w] # "running"

OneWorkerDown ==
  /\ poolSize >= 2
  /\ Cardinality({w \in WorkerIds : thread[w] # "running"}) = 1

OnStoppedWorker(h) ==
  \E w \in WorkerIds : thread[w] # "running" /\ h \in InFlightOn(w)

\* C1: (with distinct task ids) when a worker answers its payload with the
\* completion of its in-flight task while the queue is non-empty, the task at
\* the head of the queue leaves the queue and is in flight once the event has
\* been handled.
C1_CompletionAssignsQueueHead ==
  [][\A w \in WorkerIds : \A h \in InFlightOn(w) :
       (/\ DistinctIds
        /\ Pending(h) /\ handle'[h].state = "resolved"
        /\ inbox[w] = <<h>> /\ inbox'[w] = <<>>
        /\ taskQueue # <<>>)
         => /\ Len(taskQueue') < Len(taskQueue)
            /\ \E i \in 1..Len(activeWorkers') :
                 activeWorkers'[i].h = Head(taskQueue).h]_vars

\* C2: with workers that answer every payload and no shutdown, every pending
\* task eventually settles (stated for the runs in which no thread stops).
C2_EverySubmittedTaskSettles ==
  \A h \in Handles : Pending(h) ~> (Settled(h) \/ SomeThreadStopped)

\* C3: the workers marked busy and the in-flight tasks never outnumber the
\* pool size.
C3_BoundedConcurrency ==
  /\ Cardinality(BusyWorkers) <= poolSize
  /\ Len(activeWorkers) <= poolSize

\* C3 witness: a burst larger than the pool: every worker busy, the map full
\* and two tasks waiting.
C3_Witness ==
  /\ poolSize = 2
  /\ Cardinality(BusyWorkers) = 2
  /\ Len(activeWorkers) = 2
  /\ Len(taskQueue) >= 2

\* C4: (with distinct task ids) when the thread of a worker ends while the
\* worker holds a payload it has answered with neither a result nor an error,
\* the task it runs is rejected with a WorkerCrashError.
C4_CrashSettlesTask ==
  [][\A w \in WorkerIds :
       (/\ DistinctIds
        /\ thread[w] = "running" /\ inbox[w] # <<>> /\ thread'[w] = "exited")
         => \A h \in InFlightOn(w) :
              Pending(h) => /\ handle'[h].state = "rejected"
                            /\ handle'[h].kind = "WorkerCrashError"]_vars

\* C5: in a pool of two or more workers of which one has stopped (crashed or
\* reported an error), every other pending task, queued or in flight on a
\* live worker, still settles.
C5_QueueSurvivesOneFailure ==
  \A h \in Handles :
    (OneWorkerDown /\ Pending(h) /\ ~OnStoppedWorker(h))
      ~> (Settled(h) \/ ~OneWorkerDown)

\* C6: resolve/reject is called at most once on every promise, and handling
\* a worker's message or error a second time leaves the pool as the first
\* handling left it.
C6_SettledAtMostOnce ==
  /\ \A h \in Handles : handle[h].calls <= 1
  /\ \A tid \in MessageIds :
       onMessage(onMessage(Pool, tid), tid) = onMessage(Pool, tid)
  /\ \A w \in WorkerIds : onError(onError(Pool, w), w) = onError(Pool, w)

\* C6 witness: the only task of a one-worker pool was resolved by the
\* worker's message, and then the worker's error event arrived (its thread is
\* stopping with no shutdown asked for): the late event settled nothing more.
C6_Witness ==
  /\ poolSize = 1
  /\ nextTask = 1
  /\ handle[1].state = "resolved"
  /\ handle[1].calls = 1
  /\ thread[1] = "stopping"
  /\ shutdown = "running"

\* C7: (with distinct task ids) terminate() rejects every task queued at that
\* moment with a PoolClosedError.
C7_ShutdownRejectsQueued ==
  [][(DistinctIds /\ shutdown = "running" /\ shutdown' # "running")
       => \A h \in Queued : /\ handle'[h].state = "rejected"
                            /\ handle'[h].kind = "PoolClosedError"]_vars

\* C8: (with distinct task ids) once the shutdown has completed, every task
\* that was in flight on a running thread when it began is settled.
C8_ShutdownSettlesInFlight ==
  (DistinctIds /\ shutdown = "terminated")
    => \A h \in atShutdown : Settled(h)

\* C9: (with distinct task ids) an execute call made after the shutdown began
\* rejects its promise with a PoolClosedError and neither assigns nor queues
\* the task.
C9_ExecuteAfterShutdownFailsFast ==
  [][(DistinctIds /\ shutdown # "running" /\ nextTask' = nextTask + 1)
       => /\ taskQueue' = taskQueue
          /\ activeWorkers' = activeWorkers
          /\ handle'[nextTask'].state = "rejected"
          /\ handle'[nextTask'].kind = "PoolClosedError"]_vars

\* a worker that could take a task: its thread runs and no task of the map
\* is assigned to it
IdleWorkers ==
  {w \in WorkerIds : thread[w] = "running" /\ InFlightOn(w) = {}}

\* the worker of each entry of the map, in map order
WorkerOfEntry == [i \in 1..Len(activeWorkers) |-> activeWorkers[i].worker]

\* res.json(stats) of GET /api/workers/stats
stats ==
  [poolSize |-> poolSize,
   activeWorkers |-> Len(activeWorkers),
   queuedTasks |-> Len(taskQueue),
   totalWorkers |-> Cardinality(DOMAIN workers)]

\* C11: (with distinct task ids) when worker w answers the payload of its
\* pending in-flight task with a message, that task's promise is settled and
\* no other promise changes, whatever taskId the message carries.
C11_CompletionSettlesOwnTask ==
  [][\A w \in WorkerIds :
       (/\ DistinctIds
        /\ thread' = thread
        /\ inbox[w] # <<>> /\ inbox'[w] = Tail(inbox[w])
        /\ InFlightOn(w) = {Head(inbox[w])}
        /\ Pending(Head(inbox[w])))
         => /\ handle'[Head(inbox[w])].state = "resolved"
            /\ \A h \in Handles \ {Head(inbox[w])} : handle'[h] = handle[h]]_vars

\* C12: (with distinct task ids) when a running worker reports an error while
\* its task is in flight and pending, the task is rejected and leaves the map,
\* and the worker is free again: the head of the queue, if any, is in flight
\* afterwards, and with an empty queue the worker is no longer marked busy.
C12_ErrorFreesWorker ==
  [][\A w \in WorkerIds : \A h \in InFlightOn(w) :
       (/\ DistinctIds
        /\ shutdown' = shutdown
        /\ thread[w] = "running" /\ thread'[w] = "stopping"
        /\ inbox[w] # <<>>
        /\ Pending(h))
         => /\ handle'[h].state = "rejected"
            /\ \A i \in 1..Len(activeWorkers') : activeWorkers'[i].h # h
            /\ taskQueue # <<>> =>
                 \E i \in 1..Len(activeWorkers') :
                   activeWorkers'[i].h = Head(taskQueue).h
            /\ taskQueue = <<>> => workers'[w].taskId = Null]_vars

\* C13: (with distinct task ids, every thread running, no shutdown) an execute
\* call puts its task in flight on a worker that was idle when one exists and
\* leaves the queue alone; otherwise it appends the task to the tail of the
\* queue and leaves the map alone.
C13_ExecuteAssignsOrQueues ==
  [][(/\ DistinctIds /\ repeats' = repeats
      /\ shutdown = "running"
      /\ ~SomeThreadStopped
      /\ nextTask' = nextTask + 1)
       => IF IdleWorkers # {}
            THEN /\ taskQueue' = taskQueue
                 /\ \E i \in 1..Len(activeWorkers') :
                      /\ activeWorkers'[i].h = nextTask'
                      /\ activeWorkers'[i].worker \in IdleWorkers
            ELSE /\ activeWorkers' = activeWorkers
                 /\ Len(taskQueue') = Len(taskQueue) + 1
                 /\ SubSeq(taskQueue', 1, Len(taskQueue)) = taskQueue
                 /\ taskQueue'[Len(taskQueue')].h = nextTask']_vars

\* C14: no step takes a task out of the in-flight map while its promise stays
\* pending: an entry is never overwritten by a task with the same id.
C14_EntryNeverOverwritten ==
  [][\A h \in InFlight :
       (Pending(h) /\ handle'[h].state = "pending")
         => \E i \in 1..Len(activeWorkers') : activeWorkers'[i].h = h]_vars

\* C15: every worker has at most one task in the map and at most one payload
\* posted, before and after every step, and a step that posts a payload to a
\* worker posts exactly one, to a worker that was not marked busy.
C15_OneTaskPerWorker ==
  [][\A w \in WorkerIds :
       /\ Cardinality({i \in 1..Len(activeWorkers) : WorkerOfEntry[i] = w}) <= 1
       /\ Cardinality({i \in 1..Len(activeWorkers') :
                         activeWorkers'[i].worker = w}) <= 1
       /\ Len(inbox[w]) <= 1 /\ Len(inbox'[w]) <= 1
       /\ Len(inbox'[w]) > Len(inbox[w])
            => /\ workers[w].taskId = Null
               /\ workers'[w].taskId # Null]_vars

\* C15 witness: three submissions to a pool of two: each worker holds one
\* task of the map and one posted payload, the third task waits.
C15_Witness ==
  /\ poolSize = 2
  /\ \A w \in WorkerIds :
       /\ Cardinality({i \in 1..Len(activeWorkers) : WorkerOfEntry[i] = w}) = 1
       /\ Len(inbox[w]) = 1
  /\ Len(taskQueue) = 1

\* C16: (with distinct task ids, no shutdown) the map holds no task whose
\* worker's thread has exited.
C16_NoOrphanedEntries ==
  (DistinctIds /\ shutdown = "running")
    => \A i \in 1..Len(activeWorkers) : thread[WorkerOfEntry[i]] # "exited"

\* C17: (with distinct task ids) the statistics agree with the workers' marks:
\* the active count is the number of workers marked busy, the idle count
\* (total minus active, the reply has no idle field) is the number of workers
\* not marked busy, the total is the pool size and the queued count is the
\* queue length.
C17_StatsConsistent ==
  DistinctIds =>
    /\ stats.activeWorkers = Cardinality(BusyWorkers)
    /\ stats.totalWorkers - stats.activeWorkers
         = Cardinality(WorkerIds \ BusyWorkers)
    /\ stats.totalWorkers = stats.poolSize
    /\ stats.queuedTasks = Len(taskQueue)

\* C18: (with distinct task ids, no shutdown) in no state between two events
\* is the queue non-empty while some worker is idle.
C18_NoIdleWorkerWithQueuedTask ==
  (DistinctIds /\ shutdown = "running")
    => ~(taskQueue # <<>> /\ IdleWorkers # {})

\* C30: a step that puts a task in flight on a worker (by execute or by
\* processQueue) does so only on a worker whose thread is running: not after
\* its exit, not after an error that ended it, not after terminate().
C30_NoTaskToStoppedWorker ==
  [][\A w \in WorkerIds :
       (InFlightOn(w)' \ InFlightOn(w) # {}) => thread[w] = "running"]_vars

\* ------------------------------------------------------ PorteroBot claims
\* the target passes both checks of transitionTo in the current state
Allowed(targetState) ==
  /\ portero.currentState \in DOMAIN portero.states
  /\ targetState \in portero.states[portero.currentState]
  /\ targetState \in DOMAIN portero.states

\* a transitionTo call as it is made
NewTransition == [NoCall EXCEPT !.op = "transitionTo"]

C20_ResetRestoresInitialState ==
  [][\A c \in 1..MaxCalls :
       (porteroCalls[c].pc = "clear" /\ porteroCalls'[c].pc = "done")
         => /\ portero'.currentState = portero'.initialState
            /\ portero'.conversations = {}
            /\ portero'.flowHistory = <<>>]_vars

\* the three fields a transition writes
Flow(b) == <<b.currentState, b.previousState, b.flowHistory>>

\* in this step call c runs the lines of transitionTo that update the state:
\* it was not yet past them, and it is now awaiting the enter handler or has
\* returned success
ChangesState(c) ==
  /\ porteroCalls[c].pc \in {"free", "done", "exit"}
  /\ \/ porteroCalls'[c].pc = "enter"
     \/ porteroCalls'[c].pc \in {"done", "clear"} /\ porteroCalls'[c].success

\* C23: the step in which a transitionTo from S to T that succeeds updates
\* the state sets previousState to S and currentState to T and appends the
\* one entry {from S, to T} to flowHistory; the exit handler of S is invoked
\* while the state is still unchanged (it sees currentState S), the enter
\* handler of T is invoked after the update (it sees currentState T), and
\* nothing is written once the enter handler is over.
C23_SuccessfulTransition ==
  [][\A c \in 1..MaxCalls :
       LET k == porteroCalls[c]
           k2 == porteroCalls'[c]
       IN /\ (k.pc # "exit" /\ k2.pc = "exit")
               => /\ k2.saw = k2.sourceState
                  /\ Flow(portero') = Flow(portero)
          /\ ChangesState(c)
               => /\ portero'.previousState = k2.sourceState
                  /\ portero'.currentState = k2.targetState
                  /\ portero'.flowHistory =
                       Append(portero.flowHistory,
                              [from |-> k2.sourceState, to |-> k2.targetState])
                  /\ k.pc = "exit"
                       => /\ ~k.threw
                          /\ k2.sourceState = k.sourceState
                          /\ k2.targetState = k.targetState
                  /\ k2.pc = "enter" => k2.saw = k2.targetState
          /\ (k.pc = "enter" /\ k2.pc # "enter")
               => Flow(portero') = Flow(portero)]_vars

\* C23 witness: after idle -> greeting, a transitionTo('idle') whose exit
\* handler (on greeting) returned has updated the state and awaits the enter
\* handler of idle, which saw currentState idle.
C23_Witness ==
  /\ portero.onExit["greeting"] = "returns"
  /\ portero.onEnter["idle"] = "returns"
  /\ porteroCalls[1].op = "transitionTo"
  /\ porteroCalls[1].pc = "enter"
  /\ porteroCalls[1].sourceState = "greeting"
  /\ porteroCalls[1].targetState = "idle"
  /\ porteroCalls[1].saw = "idle"
  /\ portero.previousState = "greeting"
  /\ portero.currentState = "idle"
  /\ portero.flowHistory = <<[from |-> "idle", to |-> "greeting"],
                             [from |-> "greeting", to |-> "idle"]>>

\* C28: when a transitionTo call returns success:false (refused by a check,
\* or its exit or enter handler threw), the step that returns leaves
\* currentState, previousState and flowHistory alone, and currentState is the
\* sourceState that the call read when it was made (one caller, who awaits
\* each call before the next, so that nothing else ran during the call).
C28_FailedTransitionChangesNothing ==
  [][\A c \in 1..MaxCalls :
       LET k == porteroCalls[c]
           k2 == porteroCalls'[c]
       IN (k.pc # "clear" /\ k2.pc \in {"done", "clear"} /\ ~k2.success)
            => /\ Flow(portero') = Flow(portero)
               /\ k.pc \in {"exit", "enter"}
                    => portero'.currentState = k.sourceState]_vars

\* each entry of the history starts where the entry before it ended
Connected(flowHistory) ==
  \A i \in 2..Len(flowHistory) : flowHistory[i].from = flowHistory[i - 1].to

\* C29: with transitionTo calls in progress at once, every step that changes
\* currentState moves it to a state that the allowedTransitions of the state
\* current just before the step list, and flowHistory remains a connected
\* path.
C29_ConcurrentTransitionsStayValid ==
  [][/\ portero'.currentState # portero.currentState
          => /\ portero.currentState \in DOMAIN portero.states
             /\ portero'.currentState \in portero.states[portero.currentState]
     /\ Connected(portero'.flowHistory)]_vars

\* ---------------------------------------------------- ComandanteBot claims
\* the command an input resolves to: the command field of execute's result
Resolves(word) ==
  comandanteExecute(comandante, [hasPrefix |-> TRUE, word |-> word]).command

\* C21: every command's name is mapped to that command in the aliases table,
\* and execute of the prefixed name runs that command's handler.
C21_NameResolvesToItself ==
  \A i \in DOMAIN commands :
    /\ GetProperty(comandante.aliases, commands[i].name) = commands[i].name
    /\ comandante.handler[commands[i].name] = "returns"
         => Resolves(commands[i].name) = commands[i].name

\* C22: every alias in a command's aliases list is mapped to the command that
\* lists it.
C22_AliasResolvesToItsCommand ==
  \A i \in DOMAIN commands : \A j \in DOMAIN commands[i].aliases :
    GetProperty(comandante.aliases, commands[i].aliases[j]) = commands[i].name

\* the names and aliases that initializeCommands declares
KnownWords ==
  CommandNames
    \cup UNION {{commands[i].aliases[j] : j \in DOMAIN commands[i].aliases} :
                  i \in DOMAIN commands}

\* C27: the promise of every execute call resolves (the call neither throws
\* nor rejects); when the first word of the input is not a declared name or
\* alias the result is success:false with the 'Unknown command' error, and
\* when the handler that the word resolves to throws the result is
\* success:false with the handler's error message.
C27_ExecuteNeverThrows ==
  LET r == comandante.result
      word == toLowerCase(comandante.input.word)
  IN r.settled # "none"
       => /\ r.settled = "resolved"
          /\ word \notin KnownWords
               => ~r.success /\ r.error = "Unknown command"
          /\ (word \in KnownWords
                /\ comandante.handler[comandante.aliases[word]] # "returns")
               => ~r.success /\ r.error = "handler error"

\* ----------------------------------------------------------- schema claims
\* action -> the TG_OP it stands for
ActionOf(op) ==
  CASE op = "INSERT" -> "created"
    [] op = "UPDATE" -> "updated"
    [] op = "DELETE" -> "deleted"

\* C24: an INSERT, UPDATE or DELETE that applies to a scrape_jobs row (the
\* policies let it through and it matches a row) succeeds and records
\* exactly one activity_logs row, with the action of the operation, the id of
\* the job, and as user the owner of the job's project.
C24_JobChangeLogged ==
  LET st == db.statement
  IN (st.op \in {"INSERT", "UPDATE", "DELETE"}
        /\ st.outcome # "denied"
        /\ ~(st.outcome = "ok" /\ st.rows = 0))
       => /\ st.outcome = "ok"
          /\ Len(db.logged) = 1
          /\ db.logged[1].action = ActionOf(st.op)
          /\ db.logged[1].resource_id = st.job
          /\ db.logged[1].project_id \in ProjectIds
          /\ db.logged[1].user_id = projects[db.logged[1].project_id]
          /\ st.op # "DELETE"
               => db.logged[1].project_id = db.scrape_jobs[st.job].project_id

\* the step is an INSERT into scrape_results (for any caller and row)
ResultInserted ==
  /\ db' # db
  /\ db'.statement.op = "INSERT RESULT"

\* C25: an INSERT into scrape_results changes the row of a job only if it is
\* the row of the result's job and that job is 'running' with completed_at
\* NULL, and then to status 'completed' with completed_at set; a job in any
\* other status, and a 'completed' job, keeps its row; run by the service role
\* (or the owner of the job's project) the insert does complete a running job.
C25_ResultCompletesRunningJob ==
  [][ResultInserted =>
       \A j \in JobIds :
         LET old == db.scrape_jobs[j]
             new == db'.scrape_jobs[j]
             Running == old.status = "running" /\ old.completed_at = SqlNull
         IN /\ new # old
                 => /\ j = db'.statement.job
                    /\ Running
                    /\ new = [old EXCEPT !.status = "completed",
                                         !.completed_at = "time"]
            /\ ~Running => new = old
            /\ old.status = "completed" => new.status = "completed"
            /\ (Running /\ j = db'.statement.job
                  /\ db'.statement.outcome = "ok" /\ db'.logged # <<>>)
                 => new.status = "completed"]_vars

\* C25 witness: a result insert has just completed job j1, which was running
\* (the trigger's update is logged), while job j2 is still running.
C25_Witness ==
  /\ db.statement = [op |-> "INSERT RESULT", job |-> "j1", outcome |-> "ok",
                     rows |-> 1]
  /\ db.scrape_jobs["j1"].status = "completed"
  /\ db.scrape_jobs["j1"].completed_at = "time"
  /\ "j1" \in db.scrape_results
  /\ Len(db.logged) = 1 /\ db.logged[1].action = "updated"
  /\ db.scrape_jobs["j2"].status = "running"
  /\ db.scrape_jobs["j2"].completed_at = SqlNull

\* ------------------------------------------------------------ emit claims
\* the handlers of the emitted event type that the emit call itself invoked
InvokedByEmit ==
  SelectSeq(porteroEvents.emitted.invoked, LAMBDA c : c.depth = 0)

\* C26: an emit(eventType) call returns without throwing after it has
\* invoked every handler registered for eventType, once each, in registration
\* order, whichever of the handlers throw.
C26_EmitInvokesEveryHandler ==
  LET e == porteroEvents.emitted.eventType
  IN e # "none"
       => /\ ~porteroEvents.emitted.threw
          /\ InvokedByEmit =
               IF e \in DOMAIN porteroEvents.eventHandlers
                 THEN [i \in 1..Len(porteroEvents.eventHandlers[e]) |->
                         [eventType |-> e, handler |-> i, depth |-> 0]]
                 ELSE <<>>

====
